---- MODULE Spec2Model ----
(***************************************************************************)
(* Model of src/main.py: a command-line run of main() that validates its   *)
(* arguments, loads the input pairs, initialises the API client, analyses  *)
(* every pair in turn and appends the batch to out.json.                   *)
(*                                                                         *)
(* A Python str is a sequence of one-character strings; None-able          *)
(* arguments are records [given, val].  The content of out.json is the     *)
(* JSON value it holds ([valid |-> FALSE] when the file is missing, empty  *)
(* or not JSON).  The -v/-q flags only change what is printed and are not  *)
(* part of the state.                                                      *)
(***************************************************************************)
EXTENDS Naturals, Sequences, FiniteSets

VARIABLES
    args,       \* args[r]: the parsed command line of run r
    pc,         \* pc[r]: position of run r in main(), or its terminal state
    status,     \* status[r]: exit status of the process once it has ended
    text_inp,   \* text_inp[r]: main's list text_inp
    targ_inp,   \* targ_inp[r]: main's list targ_inp
    model,      \* model[r]: TRUE once init_model() has returned
    results,    \* results[r]: main's dict results = {"date", "batch"}
    calls,      \* calls[r]: the model.analyze calls made so far, in order
    past,       \* past[r]: main's list past (json.load of out.json)
    opened,     \* opened[r]: the files run r has opened, in order, with the mode
    disk,       \* the text file and the targets file on disk
    out_json,   \* the content of out.json
    out_json0   \* the content of out.json before any run started

vars == <<args, pc, status, text_inp, targ_inp, model, results, calls, past,
          opened, disk, out_json, out_json0>>

\* ---------------------------------------------------------------- bounds

\* Largest number of "\n"-separated lines of an input file.
MaxLines == 2

\* ------------------------------------------------------- Python builtins

IsSpace(c) == c = " "

RECURSIVE LStrip(_)
LStrip(s) ==
    IF s = <<>> THEN <<>>
    ELSE IF IsSpace(Head(s)) THEN LStrip(Tail(s)) ELSE s

RECURSIVE RStrip(_)
RStrip(s) ==
    IF s = <<>> THEN <<>>
    ELSE IF IsSpace(s[Len(s)]) THEN RStrip(SubSeq(s, 1, Len(s) - 1)) ELSE s

\* str.strip()
Strip(s) == RStrip(LStrip(s))

\* str.split(sep) for a one-character separator: always at least one piece.
RECURSIVE Split(_, _)
Split(s, sep) ==
    IF \A i \in 1..Len(s) : s[i] # sep THEN <<s>>
    ELSE LET i == CHOOSE j \in 1..Len(s) :
                      s[j] = sep /\ \A k \in 1..(j - 1) : s[k] # sep
         IN  <<SubSeq(s, 1, i - 1)>> \o Split(SubSeq(s, i + 1, Len(s)), sep)

\* [f(x) for x in xs]
RECURSIVE StripAll(_)
StripAll(xs) ==
    IF xs = <<>> THEN <<>> ELSE <<Strip(Head(xs))>> \o StripAll(Tail(xs))

\* Python truthiness of an optional str or list argument: None, "" and []
\* are all false.
Truthy(a) == a.given /\ Len(a.val) > 0

\* ------------------------------------------------------------ the inputs

None == [given |-> FALSE, val |-> <<>>]
Some(v) == [given |-> TRUE, val |-> v]

NL == "\n"

TextPath == <<"i", "n">>
TargPath == <<"t", "g">>
Paths == {TextPath, TargPath}

\* Lines a text file is made of: empty, blank, comment, two texts.
TextLines == { <<>>, <<" ">>, <<"#", "a">>, <<"a">>, <<" ", "b">> }

\* Lines a targets file is made of: empty, comment, commas only, one
\* target, two padded targets around an empty token.
TargLines == { <<>>, <<"#">>, <<",", " ">>, <<"a">>,
               <<" ", "a", ",", ",", "b", " ">> }

SeqsUpTo(S, n) == UNION { [1..k -> S] : k \in 1..n }

RECURSIVE Join(_)
Join(ls) ==
    IF Len(ls) = 1 THEN ls[1] ELSE ls[1] \o <<NL>> \o Join(Tail(ls))

Missing == [exists |-> FALSE, content |-> <<>>]
File(c) == [exists |-> TRUE, content |-> c]

TextFiles == { File(Join(ls)) : ls \in SeqsUpTo(TextLines, MaxLines) } \cup {Missing}
TargFiles == { File(Join(ls)) : ls \in SeqsUpTo(TargLines, MaxLines) } \cup {Missing}
DefaultFile == File(<<>>)

\* Values of -i, -f, -t and -s.  argparse makes -i/-f and -t/-s mutually
\* exclusive and required, and -t takes one or more values.
InlineTexts == { <<>>, <<"a">> }
InlineTargets == { << <<"a">> >>, << <<"a">>, <<>> >> }

ArgSets ==
    { [text |-> i.t, file |-> i.f, targets |-> t.t, targets_file |-> t.s,
       no_save |-> n] :
        i \in { [t |-> Some(x), f |-> None] : x \in InlineTexts }
              \cup { [t |-> None, f |-> Some(x)] : x \in {<<>>, TextPath} },
        t \in { [t |-> Some(x), s |-> None] : x \in InlineTargets }
              \cup { [t |-> None, s |-> Some(x)] : x \in {<<>>, TargPath} },
        n \in BOOLEAN }

NoArgs == [text |-> None, file |-> None, targets |-> None,
           targets_file |-> None, no_save |-> TRUE]

\* datetime objects and strings, as JSON sees them.
DateTime(t) == [kind |-> "datetime", v |-> t]
Str(d) == [kind |-> "str", v |-> d.v]

\* datetime.now() of each run.
Runs == {"r1", "r2"}
Now(r) == DateTime(r)

\* Records an earlier run may have left in out.json.
Old1 == [date |-> Str(DateTime("t1")), batch |-> <<>>]
Old2 == [date |-> Str(DateTime("t2")),
         batch |-> << [language |-> "en", targets |-> << <<"a">> >>,
                       text |-> <<"a">>] >>]

Invalid == [valid |-> FALSE, recs |-> <<>>]
Json(v) == [valid |-> TRUE, recs |-> v]
Stores == { Invalid, Json(<<>>), Json(<<Old1>>), Json(<<Old2, Old1>>) }

\* ------------------------------------------------------------ exit status

\* raise SystemExit() carries no code: the interpreter exits with status 0.
SystemExitStatus == 0
\* An exception nothing catches ends the interpreter with status 1.
UncaughtStatus == 1
\* main() returned.
ReturnStatus == 0

Terminal == {"Success", "UsageError", "AlignmentError", "ServiceError",
             "StoreError", "IOError"}

\* ------------------------------------------------------------ main(): code

\* if args.text and args.targets_file
InlineWithTargetsFile(a) == Truthy(a.text) /\ Truthy(a.targets_file)

\* if args.file and args.targets
FileWithInlineTargets(a) == Truthy(a.file) /\ Truthy(a.targets)

\* len(l.strip()) > 0 and l[0] != "#"
KeepLine(l) == Len(Strip(l)) > 0 /\ l[1] # "#"

\* [l for l in f.read().split("\n") if ...]
ReadTexts(content) == SelectSeq(Split(content, NL), KeepLine)

\* len(t.strip()) > 0
KeepToken(t) == Len(Strip(t)) > 0

\* Mutant: the tokens are kept as split, not trimmed.
ParseTargets_nostrip(ts) == SelectSeq(Split(ts, ","), KeepToken)

\* [t.strip() for t in ts.split(",") if len(t.strip()) > 0]
ParseTargets(ts) == StripAll(SelectSeq(Split(ts, ","), KeepToken))

RECURSIVE ParseAll(_)
ParseAll(ls) ==
    IF ls = <<>> THEN <<>> ELSE <<ParseTargets(Head(ls))>> \o ParseAll(Tail(ls))

\* [[...] for ts in f.read().split("\n") if ...]
ReadTargets(content) == ParseAll(SelectSeq(Split(content, NL), KeepLine))

\* Mutant: only a text file longer than the targets file is refused.
Misaligned_gt(r_text_inp, r_targ_inp) == Len(r_text_inp) > Len(r_targ_inp)

\* if len(r_text_inp) != len(r_targ_inp)
Misaligned(r_text_inp, r_targ_inp) == Len(r_text_inp) # Len(r_targ_inp)

\* if len(r_text_inp[i].strip()) >= 1
KeepPair(l) == Len(Strip(l)) >= 1

\* for i in range(len(r_text_inp)): ... text_inp.append(r_text_inp[i])
RECURSIVE PairTexts(_)
PairTexts(r_text_inp) ==
    IF r_text_inp = <<>> THEN <<>>
    ELSE (IF KeepPair(Head(r_text_inp)) THEN <<Head(r_text_inp)>> ELSE <<>>)
         \o PairTexts(Tail(r_text_inp))

\* for i in range(len(r_text_inp)): ... targ_inp.append(r_targ_inp[i])
RECURSIVE PairTargs(_, _)
PairTargs(r_text_inp, r_targ_inp) ==
    IF r_text_inp = <<>> THEN <<>>
    ELSE (IF KeepPair(Head(r_text_inp)) THEN <<Head(r_targ_inp)>> ELSE <<>>)
         \o PairTargs(Tail(r_text_inp), Tail(r_targ_inp))

\* open(path): the file, or a FileNotFoundError.
Open(d, path) == IF path \in DOMAIN d THEN d[path] ELSE Missing

Loaded(next, texts, targs, files) ==
    [pc |-> next, text_inp |-> texts, targ_inp |-> targs, opened |-> files]

\* The file branch of the loader, once args.file has been opened and read.
LoadFiles(a, d) ==
    LET r_text_inp == ReadTexts(Open(d, a.file.val).content)
        tf == Open(d, a.targets_file.val)
        r_targ_inp == ReadTargets(tf.content)
        f1 == << <<a.file.val, "r">> >>
        f2 == Append(f1, <<a.targets_file.val, "r">>)
    IN  IF ~Truthy(a.targets_file) THEN Loaded("InitModel", <<>>, <<>>, f1)
        ELSE IF ~tf.exists THEN Loaded("IOError", <<>>, <<>>, f1)
        ELSE IF Misaligned(r_text_inp, r_targ_inp)
             THEN Loaded("AlignmentError", <<>>, <<>>, f2)
        ELSE Loaded("InitModel", PairTexts(r_text_inp),
                    PairTargs(r_text_inp, r_targ_inp), f2)

\* "reading the input text and targets"
Load(a, d) ==
    IF Truthy(a.text)
    THEN Loaded("InitModel", <<a.text.val>>,
                IF Truthy(a.targets) THEN <<a.targets.val>> ELSE <<>>, <<>>)
    ELSE IF Truthy(a.file)
         THEN IF Open(d, a.file.val).exists THEN LoadFiles(a, d)
              ELSE Loaded("IOError", <<>>, <<>>, <<>>)
         ELSE Loaded("InitModel", <<>>, <<>>, <<>>)

\* zip(text_inp, targ_inp) stops at the shorter list.
NumPairs(r) ==
    IF Len(text_inp[r]) <= Len(targ_inp[r]) THEN Len(text_inp[r])
                                             ELSE Len(targ_inp[r])

\* analyse(): the service's result with res["text"] = text added.
AnalyseResult(text, targets) ==
    [language |-> "en", targets |-> targets, text |-> text]

\* Mutant: the flag is ignored.
Saving_always(a) == TRUE

\* if not args.no_save
Saving(a) == ~a.no_save

\* Mutant: the new record is put first.
Appended_front(old, rec) == <<rec>> \o old

\* Mutant: the new record is never added.
Appended_none(old, rec) == old

\* past.append(results)
Appended(old, rec) == Append(old, rec)

\* json.dump(..., default=str): what JSON cannot encode becomes str(value).
JsonDefault(v) == IF v.kind = "datetime" THEN Str(v) ELSE v

JsonDump(recs) ==
    [i \in 1..Len(recs) |->
        [date |-> JsonDefault(recs[i].date), batch |-> recs[i].batch]]

OutPath == <<"o", "u", "t">>

\* Mutant: the failure is swallowed and the loop goes on.
AfterAnalyzeError_continue == "Analyse"

\* Where a failed model.analyze leaves main(): the exception is not caught.
AfterAnalyzeError == "ServiceError"

\* --------------------------------------------------------------- actions

\* Lines 78-89: the two rejected combinations.
Validate(r) ==
    /\ pc[r] = "Validate"
    /\ IF InlineWithTargetsFile(args[r]) \/ FileWithInlineTargets(args[r])
       THEN /\ pc' = [pc EXCEPT ![r] = "UsageError"]
            /\ status' = [status EXCEPT ![r] = SystemExitStatus]
       ELSE /\ pc' = [pc EXCEPT ![r] = "LoadInputs"]
            /\ UNCHANGED status
    /\ UNCHANGED <<args, text_inp, targ_inp, model, results, calls, past,
                   opened, disk, out_json, out_json0>>

\* Lines 91-124.
LoadInputs(r) ==
    /\ pc[r] = "LoadInputs"
    /\ LET l == Load(args[r], disk)
       IN  /\ pc' = [pc EXCEPT ![r] = l.pc]
           /\ text_inp' = [text_inp EXCEPT ![r] = l.text_inp]
           /\ targ_inp' = [targ_inp EXCEPT ![r] = l.targ_inp]
           /\ opened' = [opened EXCEPT ![r] = @ \o l.opened]
           /\ status' = [status EXCEPT ![r] =
                            IF l.pc \in Terminal THEN UncaughtStatus ELSE @]
    /\ UNCHANGED <<args, model, results, calls, past, disk, out_json,
                   out_json0>>

\* Lines 126-132.
InitModel(r) ==
    /\ pc[r] = "InitModel"
    /\ model' = [model EXCEPT ![r] = TRUE]
    /\ results' = [results EXCEPT ![r] = [date |-> Now(r), batch |-> <<>>]]
    /\ pc' = [pc EXCEPT ![r] = "Analyse"]
    /\ UNCHANGED <<args, status, text_inp, targ_inp, calls, past, opened,
                   disk, out_json, out_json0>>

\* Lines 137-139 and 175-213: one turn of the loop.  The remote call either
\* returns or raises.
AnalyseItem(r) ==
    /\ pc[r] = "Analyse"
    /\ Len(calls[r]) < NumPairs(r)
    /\ LET i == Len(calls[r]) + 1
           text == text_inp[r][i]
           targets == targ_inp[r][i]
       IN  /\ calls' = [calls EXCEPT ![r] =
                           Append(@, [text |-> text, targets |-> targets])]
           /\ \E ok \in BOOLEAN :
                IF ok
                THEN /\ results' = [results EXCEPT ![r].batch =
                                       Append(@, AnalyseResult(text, targets))]
                     /\ UNCHANGED <<pc, status>>
                ELSE /\ pc' = [pc EXCEPT ![r] = AfterAnalyzeError]
                     /\ status' = [status EXCEPT ![r] = UncaughtStatus]
                     /\ UNCHANGED results
    /\ UNCHANGED <<args, text_inp, targ_inp, model, past, opened, disk,
                   out_json, out_json0>>

\* Lines 142-147: after the loop, skip the store or read it whole.
ReadStore(r) ==
    /\ pc[r] = "Analyse"
    /\ Len(calls[r]) >= NumPairs(r)
    /\ IF ~Saving(args[r])
       THEN /\ pc' = [pc EXCEPT ![r] = "Success"]
            /\ status' = [status EXCEPT ![r] = ReturnStatus]
            /\ UNCHANGED <<past, opened>>
       ELSE IF ~out_json.valid
       THEN /\ pc' = [pc EXCEPT ![r] = "StoreError"]
            /\ status' = [status EXCEPT ![r] = UncaughtStatus]
            /\ UNCHANGED <<past, opened>>
       ELSE /\ pc' = [pc EXCEPT ![r] = "OpenWrite"]
            /\ past' = [past EXCEPT ![r] = Appended(out_json.recs, results[r])]
            /\ opened' = [opened EXCEPT ![r] = Append(@, <<OutPath, "r">>)]
            /\ UNCHANGED status
    /\ UNCHANGED <<args, text_inp, targ_inp, model, results, calls, disk,
                   out_json, out_json0>>

\* Line 148: open("out.json", "w") empties the file.
OpenWrite(r) ==
    /\ pc[r] = "OpenWrite"
    /\ out_json' = Invalid
    /\ opened' = [opened EXCEPT ![r] = Append(@, <<OutPath, "w">>)]
    /\ pc' = [pc EXCEPT ![r] = "Dump"]
    /\ UNCHANGED <<args, status, text_inp, targ_inp, model, results, calls,
                   past, disk, out_json0>>

\* Lines 149-151: json.dump and the close of the file.
DumpStore(r) ==
    /\ pc[r] = "Dump"
    /\ out_json' = Json(JsonDump(past[r]))
    /\ pc' = [pc EXCEPT ![r] = "Success"]
    /\ status' = [status EXCEPT ![r] = ReturnStatus]
    /\ UNCHANGED <<args, text_inp, targ_inp, model, results, calls, past,
                   opened, disk, out_json0>>

Next ==
    \E r \in Runs :
        \/ Validate(r)
        \/ LoadInputs(r)
        \/ InitModel(r)
        \/ AnalyseItem(r)
        \/ ReadStore(r)
        \/ OpenWrite(r)
        \/ DumpStore(r)

\* ------------------------------------------------------- specifications

Started(as) == [r \in Runs |-> IF as[r] = NoArgs THEN "Absent" ELSE "Validate"]

InitLocals ==
    /\ status = [r \in Runs |-> 0]
    /\ text_inp = [r \in Runs |-> <<>>]
    /\ targ_inp = [r \in Runs |-> <<>>]
    /\ model = [r \in Runs |-> FALSE]
    /\ results = [r \in Runs |-> [date |-> Str(DateTime("")), batch |-> <<>>]]
    /\ calls = [r \in Runs |-> <<>>]
    /\ past = [r \in Runs |-> <<>>]
    /\ opened = [r \in Runs |-> <<>>]

\* A file is varied only when some run names it.
DisksFor(as) ==
    LET ts == IF \E r \in Runs : as[r].file.val = TextPath
              THEN TextFiles ELSE {DefaultFile}
        gs == IF \E r \in Runs : as[r].targets_file.val = TargPath
              THEN TargFiles ELSE {DefaultFile}
    IN  { [p \in Paths |-> IF p = TextPath THEN t ELSE g] : t \in ts, g \in gs }

\* One invocation of the tool.
Init ==
    /\ args \in { [r \in Runs |-> IF r = "r1" THEN a ELSE NoArgs] : a \in ArgSets }
    /\ pc = Started(args)
    /\ InitLocals
    /\ disk \in DisksFor(args)
    /\ out_json \in Stores
    /\ out_json0 = out_json

Spec == Init /\ [][Next]_vars

\* Two invocations of the tool started in the same directory.
RaceTextFiles == { File(<<"a">>), File(<<"a", NL, " ", "b">>) }
RaceTargFiles == { File(<<"a">>), Missing }

InitRace ==
    /\ args \in [Runs -> ArgSets]
    /\ pc = Started(args)
    /\ InitLocals
    /\ disk \in { [p \in Paths |-> IF p = TextPath THEN t ELSE g] :
                    t \in RaceTextFiles, g \in RaceTargFiles }
    /\ out_json \in { Invalid, Json(<<Old1>>) }
    /\ out_json0 = out_json

SpecRace == InitRace /\ [][Next]_vars

\* ----------------------------------------------------- terms of the claims

\* -i together with -s, or -f together with -t, whatever the values.
InvalidCombination(a) ==
    \/ a.text.given /\ a.targets_file.given
    \/ a.file.given /\ a.targets.given

Batch(r) == results[r].batch

\* Run r has opened out.json (in any mode).
OpenedOut(r) == \E i \in 1..Len(opened[r]) : opened[r][i][1] = OutPath

WritesOfOut(r) ==
    Cardinality({ i \in 1..Len(opened[r]) : opened[r][i] = <<OutPath, "w">> })

\* The loop over the pairs has ended without a failed call.
LoopDone(r) == pc[r] \in {"OpenWrite", "Dump", "Success", "StoreError"}

\* -f and -s both name a file that exists.
FileMode(r) ==
    /\ args[r].file.given /\ args[r].targets_file.given
    /\ Open(disk, args[r].file.val).exists
    /\ Open(disk, args[r].targets_file.val).exists

NonBlank(l) == \E i \in 1..Len(l) : l[i] # " "
HashPrefixed(l) == Len(l) > 0 /\ l[1] = "#"
Counted(l) == NonBlank(l) /\ ~HashPrefixed(l)

\* The non-blank, non-'#'-prefixed lines of a file, in file order.
CountedLines(f) == SelectSeq(Split(f.content, NL), Counted)

TextFileLines(r) == CountedLines(Open(disk, args[r].file.val))
TargFileLines(r) == CountedLines(Open(disk, args[r].targets_file.val))

\* The comma-separated tokens of a line, trimmed, the empty ones dropped.
RECURSIVE TrimmedNonEmpty(_)
TrimmedNonEmpty(ts) ==
    IF ts = <<>> THEN <<>>
    ELSE (IF NonBlank(Head(ts)) THEN <<Strip(Head(ts))>> ELSE <<>>)
         \o TrimmedNonEmpty(Tail(ts))

Tokens(line) == TrimmedNonEmpty(Split(line, ","))

Loading(r) == pc[r] \in {"Absent", "Validate", "LoadInputs"}

\* ------------------------------------------------------------------ C1
\* C1: every run given an invalid combination (-i with -s, or -f with -t)
\* ends with a non-zero exit status.
C1_InvalidCombinationExitsNonZero ==
    \A r \in Runs :
        InvalidCombination(args[r]) /\ pc[r] \in Terminal => status[r] # 0

\* ------------------------------------------------------------------ C2
\* C2: a run given -i (any string) with -s, or -f with -t, is rejected
\* before any input file is opened, before the API client is initialised,
\* before any analyze call and before out.json is read or written.
C2_RejectedBeforeAnyIO ==
    \A r \in Runs :
        InvalidCombination(args[r]) =>
            /\ opened[r] = <<>>
            /\ ~model[r]
            /\ calls[r] = <<>>
            /\ pc[r] \in Terminal => pc[r] = "UsageError"

\* ------------------------------------------------------------------ C3
\* C3: in file mode, when the two files keep different numbers of lines
\* after blank/comment filtering, the run ends in AlignmentError with a
\* non-zero exit, the client is never initialised, no analyze call is made
\* and out.json is not touched.
C3_MismatchIsAlignmentError ==
    \A r \in Runs :
        /\ FileMode(r)
        /\ ~Loading(r)
        /\ Len(TextFileLines(r)) # Len(TargFileLines(r))
        => /\ pc[r] = "AlignmentError"
           /\ status[r] # 0
           /\ ~model[r]
           /\ calls[r] = <<>>
           /\ ~OpenedOut(r)
           /\ out_json = out_json0

C3_Witness ==
    \E r \in Runs :
        /\ FileMode(r)
        /\ Len(TextFileLines(r)) = 2
        /\ Len(TargFileLines(r)) = 1
        /\ pc[r] = "AlignmentError"

\* ------------------------------------------------------------------ C4
FileModeAligned(r) ==
    FileMode(r) /\ Len(TextFileLines(r)) = Len(TargFileLines(r))

\* The k-th call is the k-th text line with the tokens of the k-th targets
\* line, and the k-th result is the one of the k-th text line.
InInputOrder(r) ==
    /\ \A k \in 1..Len(calls[r]) :
          /\ k <= Len(TextFileLines(r))
          /\ calls[r][k] = [text |-> TextFileLines(r)[k],
                            targets |-> Tokens(TargFileLines(r)[k])]
    /\ \A k \in 1..Len(Batch(r)) :
          /\ k <= Len(TextFileLines(r))
          /\ Batch(r)[k].text = TextFileLines(r)[k]

AllAnalysed(r) ==
    /\ Len(calls[r]) = Len(TextFileLines(r))
    /\ Len(Batch(r)) = Len(TextFileLines(r))

C5_InlineRunHasOneResult ==
    \A r \in Runs :
        args[r].text.given /\ args[r].targets.given /\ LoopDone(r) =>
            /\ Len(Batch(r)) = 1
            /\ Batch(r)[1].text = args[r].text.val

\* ------------------------------------------------------------------ C6
\* C6: a single run that saves into an out.json holding N records leaves
\* N+1 records: the N earlier ones unchanged and in order, then this run's
\* batch record with its date as a string.
C6_AppendKeepsEarlierRecords ==
    \A r \in Runs :
        pc[r] = "Success" /\ ~args[r].no_save =>
            /\ out_json0.valid /\ out_json.valid
            /\ Len(out_json.recs) = Len(out_json0.recs) + 1
            /\ SubSeq(out_json.recs, 1, Len(out_json0.recs)) = out_json0.recs
            /\ out_json.recs[Len(out_json.recs)] =
                  [date |-> Str(results[r].date), batch |-> Batch(r)]
            /\ results[r].date.kind = "datetime"

C6_Witness ==
    \E r \in Runs :
        /\ pc[r] = "Success" /\ ~args[r].no_save
        /\ Len(out_json0.recs) = 2
        /\ Len(out_json.recs) = 3
        /\ Len(Batch(r)) = 2

\* ------------------------------------------------------------------ C7
\* C7: when analyze fails on an item the run aborts at once: no later item
\* is analysed, nothing is written and out.json keeps its pre-run content;
\* the store is opened for writing at most once, and only after every item
\* was analysed.
C7_FailureAbortsWithoutSaving ==
    \A r \in Runs :
        /\ Len(calls[r]) > Len(Batch(r)) =>
              /\ pc[r] = "ServiceError"
              /\ status[r] # 0
              /\ Len(calls[r]) = Len(Batch(r)) + 1
              /\ ~OpenedOut(r)
              /\ out_json = out_json0
        /\ WritesOfOut(r) <= 1
        /\ WritesOfOut(r) = 1 =>
              /\ Len(Batch(r)) = NumPairs(r)
              /\ Len(calls[r]) = NumPairs(r)

C7_Witness ==
    \E r \in Runs :
        /\ pc[r] = "ServiceError"
        /\ ~args[r].no_save
        /\ out_json0.valid
        /\ Len(Batch(r)) = 1
        /\ Len(calls[r]) = 2

\* ------------------------------------------------------------------ C8
\* C8: a run given --no-save never opens out.json, whichever way it ends,
\* and leaves its content as it was.
C8_NoSaveLeavesStoreAlone ==
    \A r \in Runs :
        args[r].no_save /\ pc[r] # "Absent" =>
            ~OpenedOut(r) /\ out_json = out_json0

C8_Witness ==
    \E r \in Runs :
        /\ args[r].no_save
        /\ pc[r] = "Success"
        /\ Len(Batch(r)) = 2
        /\ out_json0.valid

\* ------------------------------------------------------------------ C9
BothSaved(r, q) ==
    /\ r # q
    /\ pc[r] = "Success" /\ pc[q] = "Success"
    /\ ~args[r].no_save /\ ~args[q].no_save

\* Run r read out.json while it still held its pre-run content.
ReadPreRun(r) == past[r] = Appended(out_json0.recs, results[r])

\* C9: two runs that both read out.json before either rewrote it both end
\* successfully, and the store then holds the pre-run records and the batch
\* record of only one of them: the other update is lost.
C9_StaleReadLosesUpdate ==
    \A r, q \in Runs :
        BothSaved(r, q) /\ ReadPreRun(r) /\ ReadPreRun(q) =>
            /\ out_json.valid
            /\ Len(out_json.recs) = Len(out_json0.recs) + 1
            /\ \/ out_json.recs = JsonDump(past[r])
               \/ out_json.recs = JsonDump(past[q])

C9_Witness ==
    \E r, q \in Runs :
        /\ BothSaved(r, q) /\ ReadPreRun(r) /\ ReadPreRun(q)
        /\ Len(Batch(r)) = 1 /\ Len(Batch(q)) = 1
        /\ Len(out_json.recs) = Len(out_json0.recs) + 1
        /\ out_json.recs[Len(out_json.recs)].date = Str(results[q].date)

\* ------------------------------------------------------------------ C10
\* C10: every (text, targets) pair handed to analyse has at least one
\* target, and so has every per-line target list loaded from a targets
\* file.
C10_TargetsNeverEmpty ==
    \A r \in Runs :
        /\ \A k \in 1..Len(calls[r]) : Len(calls[r][k].targets) >= 1
        /\ \A k \in 1..Len(targ_inp[r]) : Len(targ_inp[r][k]) >= 1

====
